---- MODULE Spec2Model ----
(***************************************************************************)
(* FastFileWriter (file_fast.go): a size-triggered rotating log writer.    *)
(*                                                                         *)
(* The model follows the Go source statement by statement.  Every thread   *)
(* (goroutine) calls Write, Close and Rotate; a call is cut into steps at  *)
(* every access to shared memory that another thread can observe without   *)
(* holding the mutex: the atomic.Value `file`, the atomic counter `size`    *)
(* and the open/closed status of an *os.File.                              *)
(*                                                                         *)
(* Environment:                                                            *)
(*   - os.OpenFile succeeds or fails, chosen freely at every call;         *)
(*   - Write on an open *os.File accepts all bytes, on a closed one it     *)
(*     returns (0, &PathError{Err: ErrClosed});                            *)
(*   - os.Remove, os.Symlink and filepath.Glob succeed; ownership          *)
(*     correction (lines 104-109) touches no modelled state;               *)
(*   - the wall clock has second precision and never runs backwards.       *)
(* A Go panic leaves the panicking thread at "panic" for ever; the other   *)
(* threads go on (a recovered panic) or stop (the process dies), which     *)
(* for safety properties is covered by stuttering.                         *)
(***************************************************************************)
EXTENDS Integers, Sequences, FiniteSets, TLC

(* ---------------------------------------------------------------- bounds *)
\* Spec: concurrent callers, racing within the same second(s)
NumThreads == 2
MaxCalls == 2
MaxTime == 0
\* SeqSpec: one caller, every configuration
SeqMaxCalls == 3
SeqMaxTime == 2
\* RetSpec: one caller, a first Write and then forced rotations
RetMaxCalls == 6
RetMaxTime == 5
\* longest slice handed to Write
MaxLen == 2

(* configurations the writer is constructed with *)
MaxSizeValues == {0, 1}
MaxBackupsValues == {-2, -1, 0, 1}
ConcBackupsValues == {0}

\* the lengths of p concurrent writers use: one that stays within MaxSize = 1
\* and one that crosses it
ConcLens == {1, 2}

VARIABLES
    cfg,      \* [MaxSize, MaxBackups]: the exported configuration fields
    lim,      \* [threads, maxCalls, maxTime]: bounds of the run
    now,      \* the second timeNow() returned last
    file,     \* w.file: Nil or a handle (index into handles)
    size,     \* w.size
    mu,       \* w.mu: 0 when free, else the thread holding it
    handles,  \* every *os.File opened so far: [name, ino, open, by]
    bytes,    \* inode -> number of bytes appended to it
    disk,     \* directory: backup name -> inode
    link,     \* what w.Filename is: NoLink or the symlink's target
    pc,       \* per thread: position in the call
    L,        \* per thread: the locals of the call in progress, its results at the end
    g         \* history: counters of what has happened so far

vars == <<cfg, lim, now, file, size, mu, handles, bytes, disk, link, pc, L, g>>

Nil == 0
NoLink == <<>>

(* ---------------------------------------------------------------- naming *)
\* now.Format(".2006-01-02T15-04-05"): a fixed-width, zero-padded stamp.
\* Stem and extension are the same for every name and are left out.
Format(t) == <<t \div 10, t % 10>>

openinfo(t) == Format(t)

\* string order, as sort.Strings uses it
StrLess(a, b) ==
    \E i \in 1..Len(a) :
        /\ i <= Len(b)
        /\ \A j \in 1..(i - 1) : a[j] = b[j]
        /\ a[i] < b[i]

RECURSIVE SortStrings(_)
SortStrings(S) ==
    IF S = {} THEN <<>>
    ELSE LET m == CHOOSE x \in S : \A y \in S \ {x} : StrLess(x, y)
         IN <<m>> \o SortStrings(S \ {m})

\* filepath.Glob(prefix + ".20*" + ext): every stamp is of this century
Glob(d) == DOMAIN d

(* ------------------------------------------------------------ filesystem *)
RemoveAll(d, names) == [x \in (DOMAIN d) \ names |-> d[x]]

\* inode of a file that was on disk before the writer was constructed
PreIno(name) == 0 - (name[1] * 10 + name[2] + 1)

RECURSIVE SumBytes(_, _, _)
SumBytes(d, b, S) ==
    IF S = {} THEN 0
    ELSE LET x == CHOOSE y \in S : TRUE
         IN b[d[x]] + SumBytes(d, b, S \ {x})

DiskBytes == SumBytes(disk, bytes, DOMAIN disk)

\* what w.file holds: nothing, an open file, or a file that has been closed
HandleStatus ==
    IF file = Nil THEN "nil" ELSE IF handles[file].open THEN "open" ELSE "closed"

\* mutant: the loop bound without the "- 1" that spares the newest file
SweepCountOffByOne(names, maxBackups) == Len(names) - maxBackups

\* the retention loop of rotate
SweepCount(names, maxBackups) == Len(names) - maxBackups - 1

Swept(names, maxBackups) ==
    LET k == SweepCount(names, maxBackups)
        last == IF k > Len(names) THEN Len(names) ELSE k
    IN {names[i] : i \in 1..last}

\* names[i] with i = len(names): index out of range
SweepPanics(names, maxBackups) ==
    Len(names) > 0 /\ SweepCount(names, maxBackups) > Len(names)

(* ------------------------------------------------------------------ init *)
NoLocals == [op |-> "none", p |-> 0, file |-> Nil, n |-> 0, err |-> "nil",
             tmp |-> Nil, newfile |-> Nil, oldfile |-> Nil, rerr |-> "nil",
             openFailed |-> FALSE, start |-> "nil", tries |-> 0, appended |-> 0]

NoHistory == [calls |-> 0, requested |-> 0, accepted |-> 0, sizeRotations |-> 0,
              openFailed |-> FALSE, via |-> <<>>]

InitWith(limits, sizes, backups, pre) ==
    /\ lim = limits
    /\ cfg \in [MaxSize : sizes, MaxBackups : backups]
    /\ now = 0
    /\ file = Nil
    /\ size = 0
    /\ mu = 0
    /\ handles = <<>>
    /\ \E P \in pre :
          /\ disk = [x \in P |-> PreIno(x)]
          /\ bytes = [i \in {PreIno(x) : x \in P} |-> 0]
    /\ link = NoLink
    /\ pc = [t \in limits.threads |-> "idle"]
    /\ L = [t \in limits.threads |-> NoLocals]
    /\ g = NoHistory

Init ==
    InitWith([threads |-> 1..NumThreads, maxCalls |-> MaxCalls, maxTime |-> MaxTime,
              lens |-> ConcLens],
             MaxSizeValues, ConcBackupsValues, {{}})

(* --------------------------------------------------------------- helpers *)
Threads == lim.threads

\* timeNow(): any second from the last one read on
timeNow == now..lim.maxTime

SetPc(t, where) == pc' = [pc EXCEPT ![t] = where]

\* the call of thread t returns (n, err): only the results stay
Return(t, n, err) ==
    /\ L' = [L EXCEPT ![t] = [NoLocals EXCEPT !.op = L[t].op, !.p = L[t].p,
                                               !.n = n, !.err = err,
                                               !.openFailed = L[t].openFailed,
                                               !.start = L[t].start,
                                               !.tries = L[t].tries,
                                               !.appended = L[t].appended]]
    /\ SetPc(t, "returned")

\* the caller has taken the results and is free to call again
Returned(t) ==
    /\ pc[t] = "returned"
    /\ L' = [L EXCEPT ![t] = NoLocals]
    /\ SetPc(t, "idle")
    /\ UNCHANGED <<cfg, lim, now, file, size, mu, handles, bytes, disk, link, g>>

\* at most maxCalls calls are made in a run
MayCall(t) == pc[t] = "idle" /\ g.calls < lim.maxCalls

\* no call is in progress on any thread
Quiescent == \A t \in Threads : pc[t] \in {"idle", "returned"}

\* (*os.File).Write(p) on handle h
FileWriteN(h, p) == IF handles[h].open THEN p ELSE 0

FileWriteErr(h) == IF handles[h].open THEN "nil" ELSE "ErrClosed"

FileWriteBytes(h, p) ==
    IF handles[h].open THEN [bytes EXCEPT ![handles[h].ino] = @ + p] ELSE bytes

\* os.OpenFile(name, O_APPEND|O_CREATE|O_WRONLY, perm), when it succeeds
NewHandle == Len(handles) + 1

OpenIno(name) == IF name \in DOMAIN disk THEN disk[name] ELSE NewHandle

OpenFileOk(name, by) ==
    /\ handles' = Append(handles, [name |-> name, ino |-> OpenIno(name),
                                   open |-> TRUE, by |-> by])
    /\ disk' = IF name \in DOMAIN disk THEN disk
               ELSE [x \in (DOMAIN disk) \cup {name} |->
                        IF x = name THEN NewHandle ELSE disk[x]]
    /\ bytes' = IF name \in DOMAIN disk THEN bytes
                ELSE [i \in (DOMAIN bytes) \cup {NewHandle} |->
                        IF i = NewHandle THEN 0 ELSE bytes[i]]

\* (*os.File).Close()
CloseHandle(h) == [handles EXCEPT ![h].open = FALSE]

(* ----------------------------------------------------------------- Write *)
\* line 36: which branch the loaded handle selects
HandlePresent(f) == f # Nil

\* line 33-36: the call starts and loads w.file
Write(t, p) ==
    /\ MayCall(t)
    /\ L' = [L EXCEPT ![t] = [NoLocals EXCEPT !.op = "Write", !.p = p, !.file = file,
                                                !.start = HandleStatus]]
    /\ SetPc(t, IF HandlePresent(file) THEN "w_write" ELSE "w_lock")
    /\ g' = [g EXCEPT !.calls = @ + 1, !.requested = @ + p]
    /\ UNCHANGED <<cfg, lim, now, file, size, mu, handles, bytes, disk, link>>

\* history: the bytes that went through handle h so far
ViaBytes(h) == IF h \in DOMAIN g.via THEN g.via[h] ELSE 0

\* history after a write of n bytes through handle h
Accept(h, n) ==
    [g EXCEPT !.accepted = @ + n,
              !.via = IF n = 0 THEN g.via
                      ELSE [x \in (DOMAIN g.via) \cup {h} |->
                               ViaBytes(x) + (IF x = h THEN n ELSE 0)]]

\* the locals of t after a write attempt that returned (n, err)
Attempt(t, n, err) ==
    [L EXCEPT ![t].n = n, ![t].err = err,
              ![t].tries = @ + 1, ![t].appended = @ + n]

\* mutant: Write tries again whatever the first attempt returned
IsClosedErrorAlways(err) == TRUE

\* line 39: the error that makes Write try again
IsClosedError(err) == err = "ErrClosed"

\* line 37-39: write through the loaded handle
WriteFirst(t) ==
    /\ pc[t] = "w_write"
    /\ LET h == L[t].file
           n == FileWriteN(h, L[t].p)
           err == FileWriteErr(h)
       IN /\ bytes' = FileWriteBytes(h, L[t].p)
          /\ L' = Attempt(t, n, err)
          /\ g' = Accept(h, n)
          /\ SetPc(t, IF IsClosedError(err) THEN "w_reload" ELSE "w_size")
    /\ UNCHANGED <<cfg, lim, now, file, size, mu, handles, disk, link>>

\* line 40: w.file.Load() of the retry
WriteReload(t) ==
    /\ pc[t] = "w_reload"
    /\ L' = [L EXCEPT ![t].tmp = file]
    /\ SetPc(t, "w_retry")
    /\ UNCHANGED <<cfg, lim, now, file, size, mu, handles, bytes, disk, link, g>>

\* line 40: the second Write
WriteRetry(t) ==
    /\ pc[t] = "w_retry"
    /\ LET h == L[t].tmp
           n == FileWriteN(h, L[t].p)
       IN /\ bytes' = FileWriteBytes(h, L[t].p)
          /\ L' = Attempt(t, n, FileWriteErr(h))
          /\ g' = Accept(h, n)
    /\ SetPc(t, "w_size")
    /\ UNCHANGED <<cfg, lim, now, file, size, mu, handles, disk, link>>

\* line 45: the double check of the first write
MustCreate == file = Nil

\* line 43-45: take the mutex and look at w.file again
WriteLock(t) ==
    /\ pc[t] = "w_lock"
    /\ mu = 0
    /\ mu' = t
    /\ SetPc(t, IF MustCreate THEN "c_open" ELSE "w_unlock")
    /\ UNCHANGED <<cfg, lim, now, file, size, handles, bytes, disk, link, L, g>>

\* mutant: create publishes its result before looking at the error
CreateOpenStoresOnFailure(t) ==
    /\ pc[t] = "c_open"
    /\ \/ /\ \E tm \in timeNow : now' = tm /\ OpenFileOk(openinfo(tm), "create")
          /\ file' = NewHandle
          /\ L' = [L EXCEPT ![t].file = NewHandle]
          /\ SetPc(t, "c_size")
          /\ g' = g
       \/ /\ L' = [L EXCEPT ![t].file = Nil, ![t].err = "EOPEN", ![t].openFailed = TRUE]
          /\ SetPc(t, "w_unlock")
          /\ g' = [g EXCEPT !.openFailed = TRUE]
          /\ handles' = Append(handles, [name |-> openinfo(now), ino |-> Nil,
                                         open |-> FALSE, by |-> "create"])
          /\ file' = NewHandle
          /\ UNCHANGED <<now, bytes, disk>>
    /\ UNCHANGED <<cfg, lim, size, mu, link>>

\* create, line 124-128: open the backing file and publish the handle
CreateOpen(t) ==
    /\ pc[t] = "c_open"
    /\ \/ /\ \E tm \in timeNow : now' = tm /\ OpenFileOk(openinfo(tm), "create")
          /\ file' = NewHandle
          /\ L' = [L EXCEPT ![t].file = NewHandle]
          /\ SetPc(t, "c_size")
          /\ g' = g
       \/ /\ L' = [L EXCEPT ![t].file = Nil, ![t].err = "EOPEN", ![t].openFailed = TRUE]
          /\ SetPc(t, "w_unlock")
          /\ g' = [g EXCEPT !.openFailed = TRUE]
          /\ UNCHANGED <<now, file, handles, bytes, disk>>
    /\ UNCHANGED <<cfg, lim, size, mu, link>>

\* create, line 129-134: reset the counter and point the symlink at the file
CreateFinish(t) ==
    /\ pc[t] = "c_size"
    /\ size' = 0
    /\ link' = handles[L[t].file].name
    /\ SetPc(t, "w_unlock")
    /\ UNCHANGED <<cfg, lim, now, file, mu, handles, bytes, disk, L, g>>

\* mutant: the mutex is kept through the write of line 52
WriteUnlockKeepsLock(t) ==
    /\ pc[t] = "w_unlock"
    /\ mu' = mu
    /\ IF L[t].err # "nil"
       THEN Return(t, L[t].n, L[t].err)
       ELSE SetPc(t, "w_write3") /\ UNCHANGED L
    /\ UNCHANGED <<cfg, lim, now, file, size, handles, bytes, disk, link, g>>

\* line 48-51: release the mutex; a failed create ends the call
WriteUnlock(t) ==
    /\ pc[t] = "w_unlock"
    /\ mu' = 0
    /\ IF L[t].err # "nil"
       THEN Return(t, L[t].n, L[t].err)
       ELSE SetPc(t, "w_write3") /\ UNCHANGED L
    /\ UNCHANGED <<cfg, lim, now, file, size, handles, bytes, disk, link, g>>

\* line 52: file.(*os.File).Write(p); the assertion panics on a nil interface
WriteCreated(t) ==
    /\ pc[t] = "w_write3"
    /\ IF L[t].file = Nil
       THEN SetPc(t, "panic") /\ UNCHANGED <<bytes, L, g>>
       ELSE LET h == L[t].file
                n == FileWriteN(h, L[t].p)
            IN /\ bytes' = FileWriteBytes(h, L[t].p)
               /\ L' = Attempt(t, n, FileWriteErr(h))
               /\ g' = Accept(h, n)
               /\ SetPc(t, "w_size")
    /\ UNCHANGED <<cfg, lim, now, file, size, mu, handles, disk, link>>

\* mutant: the size check lets one byte more through
OverMaxSizeStrict(total) == total > cfg.MaxSize + 1

\* line 55: the size check after the write
OverMaxSize(total) == total > cfg.MaxSize

\* line 55: add n to w.size; at or below the threshold the call returns (line 64)
WriteSize(t) ==
    /\ pc[t] = "w_size"
    /\ IF cfg.MaxSize > 0
       THEN /\ size' = size + L[t].n
            /\ IF OverMaxSize(size + L[t].n)
               THEN SetPc(t, "w_lock2") /\ UNCHANGED L
               ELSE Return(t, L[t].n, L[t].err)
       ELSE /\ size' = size
            /\ Return(t, L[t].n, L[t].err)
    /\ UNCHANGED <<cfg, lim, now, file, mu, handles, bytes, disk, link, g>>

\* mutant: rotate without looking at w.size again under the mutex
StillOverUnchecked == TRUE

\* line 58: the double check of the size
StillOver == size > cfg.MaxSize

\* line 56-58: take the mutex and look at w.size again
WriteLock2(t) ==
    /\ pc[t] = "w_lock2"
    /\ mu = 0
    /\ mu' = t
    /\ SetPc(t, IF StillOver THEN "r_open" ELSE "w_unlock2")
    /\ UNCHANGED <<cfg, lim, now, file, size, handles, bytes, disk, link, L, g>>

\* line 59-64: rotate's error is dropped; Write returns the write's (n, err)
WriteResultErr(t) == L[t].err

WriteUnlock2(t) ==
    /\ pc[t] = "w_unlock2"
    /\ mu' = 0
    /\ Return(t, L[t].n, WriteResultErr(t))
    /\ UNCHANGED <<cfg, lim, now, file, size, handles, bytes, disk, link, g>>

(* ----------------------------------------------------------------- Close *)
\* line 67-71: take the mutex and load w.file
Close(t) ==
    /\ MayCall(t)
    /\ mu = 0
    /\ mu' = t
    /\ L' = [L EXCEPT ![t] = [NoLocals EXCEPT !.op = "Close", !.file = file,
                                                !.start = HandleStatus]]
    /\ SetPc(t, IF HandlePresent(file) THEN "cl_close" ELSE "cl_unlock")
    /\ g' = [g EXCEPT !.calls = @ + 1]
    /\ UNCHANGED <<cfg, lim, now, file, size, handles, bytes, disk, link>>

\* (*os.File).Close(): closing a closed file is an error
FileCloseErr(h) == IF handles[h].open THEN "nil" ELSE "ErrClosed"

\* line 72
CloseFile(t) ==
    /\ pc[t] = "cl_close"
    /\ L' = [L EXCEPT ![t].err = FileCloseErr(L[t].file)]
    /\ handles' = CloseHandle(L[t].file)
    /\ SetPc(t, "cl_size")
    /\ UNCHANGED <<cfg, lim, now, file, size, mu, bytes, disk, link, g>>

\* line 73
CloseSize(t) ==
    /\ pc[t] = "cl_size"
    /\ size' = 0
    /\ SetPc(t, "cl_unlock")
    /\ UNCHANGED <<cfg, lim, now, file, mu, handles, bytes, disk, link, L, g>>

\* line 76-77
CloseUnlock(t) ==
    /\ pc[t] = "cl_unlock"
    /\ mu' = 0
    /\ Return(t, 0, L[t].err)
    /\ UNCHANGED <<cfg, lim, now, file, size, handles, bytes, disk, link, g>>

(* ---------------------------------------------------------------- Rotate *)
\* line 80-82: take the mutex and call rotate
Rotate(t) ==
    /\ MayCall(t)
    /\ mu = 0
    /\ mu' = t
    /\ L' = [L EXCEPT ![t] = [NoLocals EXCEPT !.op = "Rotate", !.start = HandleStatus]]
    /\ SetPc(t, "r_open")
    /\ g' = [g EXCEPT !.calls = @ + 1]
    /\ UNCHANGED <<cfg, lim, now, file, size, handles, bytes, disk, link>>

\* where rotate returns to: line 60 of Write or line 83 of Rotate
AfterRotate(t) == IF L[t].op = "Write" THEN "w_unlock2" ELSE "ro_unlock"

\* mutant: a rotation that cannot open the new file still resets the counter
RotateOpenFailResets(t) ==
    /\ pc[t] = "r_open"
    /\ \/ /\ \E tm \in timeNow : now' = tm /\ OpenFileOk(openinfo(tm), "rotate")
          /\ file' = NewHandle
          /\ L' = [L EXCEPT ![t].oldfile = file, ![t].newfile = NewHandle]
          /\ SetPc(t, "r_size")
          /\ g' = IF L[t].op = "Write" THEN [g EXCEPT !.sizeRotations = @ + 1] ELSE g
          /\ size' = size
       \/ /\ L' = [L EXCEPT ![t].rerr = "EOPEN", ![t].openFailed = TRUE]
          /\ SetPc(t, AfterRotate(t))
          /\ g' = [g EXCEPT !.openFailed = TRUE]
          /\ size' = 0
          /\ UNCHANGED <<now, file, handles, bytes, disk>>
    /\ UNCHANGED <<cfg, lim, mu, link>>

\* mutant: the old handle is closed before the new one is stored
RotateOpenCloseFirst(t) ==
    /\ pc[t] = "r_open"
    /\ \/ /\ \E tm \in timeNow :
                /\ now' = tm
                /\ handles' = [h \in 1..NewHandle |->
                                 IF h = NewHandle
                                 THEN [name |-> openinfo(tm), ino |-> OpenIno(openinfo(tm)),
                                       open |-> TRUE, by |-> "rotate"]
                                 ELSE IF h = file THEN [handles[h] EXCEPT !.open = FALSE]
                                 ELSE handles[h]]
                /\ disk' = IF openinfo(tm) \in DOMAIN disk THEN disk
                           ELSE [x \in (DOMAIN disk) \cup {openinfo(tm)} |->
                                    IF x = openinfo(tm) THEN NewHandle ELSE disk[x]]
                /\ bytes' = IF openinfo(tm) \in DOMAIN disk THEN bytes
                            ELSE [i \in (DOMAIN bytes) \cup {NewHandle} |->
                                    IF i = NewHandle THEN 0 ELSE bytes[i]]
          /\ file' = NewHandle
          /\ L' = [L EXCEPT ![t].oldfile = file, ![t].newfile = NewHandle]
          /\ SetPc(t, "r_size")
          /\ g' = IF L[t].op = "Write" THEN [g EXCEPT !.sizeRotations = @ + 1] ELSE g
       \/ /\ L' = [L EXCEPT ![t].rerr = "EOPEN", ![t].openFailed = TRUE]
          /\ SetPc(t, AfterRotate(t))
          /\ g' = [g EXCEPT !.openFailed = TRUE]
          /\ UNCHANGED <<now, file, handles, bytes, disk>>
    /\ UNCHANGED <<cfg, lim, size, mu, link>>

\* rotate, line 88-94: open the new file, load the old handle, store the new one
RotateOpen(t) ==
    /\ pc[t] = "r_open"
    /\ \/ /\ \E tm \in timeNow : now' = tm /\ OpenFileOk(openinfo(tm), "rotate")
          /\ file' = NewHandle
          /\ L' = [L EXCEPT ![t].oldfile = file, ![t].newfile = NewHandle]
          /\ SetPc(t, "r_size")
          /\ g' = IF L[t].op = "Write" THEN [g EXCEPT !.sizeRotations = @ + 1] ELSE g
       \/ /\ L' = [L EXCEPT ![t].rerr = "EOPEN", ![t].openFailed = TRUE]
          /\ SetPc(t, AfterRotate(t))
          /\ g' = [g EXCEPT !.openFailed = TRUE]
          /\ UNCHANGED <<now, file, handles, bytes, disk>>
    /\ UNCHANGED <<cfg, lim, size, mu, link>>

\* mutant: rotate leaves w.size as it is
RotateSizeSkipped(t) ==
    /\ pc[t] = "r_size"
    /\ SetPc(t, "r_close")
    /\ UNCHANGED <<cfg, lim, now, file, size, mu, handles, bytes, disk, link, L, g>>

\* rotate, line 95
RotateSize(t) ==
    /\ pc[t] = "r_size"
    /\ size' = 0
    /\ SetPc(t, "r_close")
    /\ UNCHANGED <<cfg, lim, now, file, mu, handles, bytes, disk, link, L, g>>

\* mutant: the names are swept from the newest end
Reverse(q) == [i \in 1..Len(q) |-> q[Len(q) + 1 - i]]

RetentionKeepOldest(d) == Swept(Reverse(SortStrings(Glob(d))), cfg.MaxBackups)

\* rotate, line 111-118: the names the retention loop removes
Retention(d) == Swept(SortStrings(Glob(d)), cfg.MaxBackups)

\* rotate, line 97-120: close the old handle, repoint the symlink, sweep
\* mutant: rotate leaves the replaced handle open
RotateFinishLeaks(t) ==
    /\ pc[t] = "r_close"
    /\ handles' = handles
    /\ link' = handles[L[t].newfile].name
    /\ disk' = RemoveAll(disk, Retention(disk))
    /\ SetPc(t, IF SweepPanics(SortStrings(Glob(disk)), cfg.MaxBackups)
                THEN "panic" ELSE AfterRotate(t))
    /\ UNCHANGED <<cfg, lim, now, file, size, mu, bytes, L, g>>

RotateFinish(t) ==
    /\ pc[t] = "r_close"
    /\ handles' = IF L[t].oldfile # Nil THEN CloseHandle(L[t].oldfile) ELSE handles
    /\ link' = handles[L[t].newfile].name
    /\ disk' = RemoveAll(disk, Retention(disk))
    /\ SetPc(t, IF SweepPanics(SortStrings(Glob(disk)), cfg.MaxBackups)
                THEN "panic" ELSE AfterRotate(t))
    /\ UNCHANGED <<cfg, lim, now, file, size, mu, bytes, L, g>>

\* line 83-84
RotateUnlock(t) ==
    /\ pc[t] = "ro_unlock"
    /\ mu' = 0
    /\ Return(t, 0, L[t].rerr)
    /\ UNCHANGED <<cfg, lim, now, file, size, handles, bytes, disk, link, g>>

(* ------------------------------------------------------------------ spec *)
Next ==
    \/ \E t \in Threads, p \in lim.lens : Write(t, p)
    \/ \E t \in Threads : WriteFirst(t)
    \/ \E t \in Threads : WriteReload(t)
    \/ \E t \in Threads : WriteRetry(t)
    \/ \E t \in Threads : WriteLock(t)
    \/ \E t \in Threads : CreateOpen(t)
    \/ \E t \in Threads : CreateFinish(t)
    \/ \E t \in Threads : WriteUnlock(t)
    \/ \E t \in Threads : WriteCreated(t)
    \/ \E t \in Threads : WriteSize(t)
    \/ \E t \in Threads : WriteLock2(t)
    \/ \E t \in Threads : WriteUnlock2(t)
    \/ \E t \in Threads : Close(t)
    \/ \E t \in Threads : CloseFile(t)
    \/ \E t \in Threads : CloseSize(t)
    \/ \E t \in Threads : CloseUnlock(t)
    \/ \E t \in Threads : Rotate(t)
    \/ \E t \in Threads : RotateOpen(t)
    \/ \E t \in Threads : RotateSize(t)
    \/ \E t \in Threads : RotateFinish(t)
    \/ \E t \in Threads : RotateUnlock(t)
    \/ \E t \in Threads : Returned(t)

Spec == Init /\ [][Next]_vars

\* one caller; every configuration, with and without older backups on disk
SeqInit ==
    InitWith([threads |-> {1}, maxCalls |-> SeqMaxCalls, maxTime |-> SeqMaxTime,
              lens |-> 1..MaxLen],
             MaxSizeValues, MaxBackupsValues, {{}, {openinfo(0)}, {openinfo(0), openinfo(1)}})

SeqSpec == SeqInit /\ [][Next]_vars

\* one caller that writes once and forces rotations, MaxBackups = 2, empty directory
RetInit ==
    InitWith([threads |-> {1}, maxCalls |-> RetMaxCalls, maxTime |-> RetMaxTime,
              lens |-> 1..MaxLen],
             {0}, {2}, {{}})

RetNext ==
    \/ \E t \in Threads, p \in lim.lens : pc[t] = "idle" /\ file = Nil /\ Write(t, p)
    \/ \E t \in Threads : WriteLock(t)
    \/ \E t \in Threads : CreateOpen(t)
    \/ \E t \in Threads : CreateFinish(t)
    \/ \E t \in Threads : WriteUnlock(t)
    \/ \E t \in Threads : WriteCreated(t)
    \/ \E t \in Threads : WriteSize(t)
    \/ \E t \in Threads : Rotate(t)
    \/ \E t \in Threads : RotateOpen(t)
    \/ \E t \in Threads : RotateSize(t)
    \/ \E t \in Threads : RotateFinish(t)
    \/ \E t \in Threads : RotateUnlock(t)
    \/ \E t \in Threads : Returned(t)

RetSpec == RetInit /\ [][RetNext]_vars

(* ================================================================ claims *)
Panicked == \E t \in Threads : pc[t] = "panic"

\* a rotation by thread t has run to its end (line 120) in this step
RotationEnds(t) == pc[t] = "r_close" /\ pc'[t] \in {"w_unlock2", "ro_unlock"}

\* the k newest of a set of names, by string order
Newest(S, k) == {x \in S : Cardinality({y \in S : StrLess(x, y)}) < k}

Min(a, b) == IF a < b THEN a ELSE b

(* C1: a Write that starts when Close has closed the handle, and whose     *)
(* opens succeed, returns all bytes written and no error.                  *)
C1_WriteAfterCloseSucceeds ==
    \A t \in Threads :
        (pc[t] = "returned" /\ L[t].op = "Write" /\ L[t].start = "closed"
                /\ ~L[t].openFailed)
            => (L[t].err = "nil" /\ L[t].n = L[t].p)

(* C2: with MaxSize = 0, no failed open and no forced rotation, no Write   *)
(* crashes, and once no call is in progress the backing files hold exactly *)
(* the bytes handed to Write, every Write having returned its full count.  *)
C2_NoBytesLost ==
    (cfg.MaxSize = 0 /\ ~g.openFailed /\ \A h \in DOMAIN handles : handles[h].by = "create")
        => /\ ~Panicked
           /\ Quiescent => (DiskBytes = g.requested /\ g.accepted = g.requested)

C4_SweepKeepsNewest ==
    [][\A t \in Threads :
          RotationEnds(t)
              => /\ DOMAIN disk' =
                       Newest(DOMAIN disk,
                              Min(Cardinality(DOMAIN disk), cfg.MaxBackups + 1))
                 /\ Cardinality(DOMAIN disk') <= cfg.MaxBackups + 1]_vars

\* a forced rotation has ended, MaxBackups + 1 = 2 backups are left and a
\* file the writer itself had opened is gone
C4_Witness ==
    /\ cfg.MaxBackups = 1
    /\ \E t \in Threads : pc[t] = "ro_unlock" /\ L[t].newfile # Nil
    /\ Cardinality(DOMAIN disk) = 2
    /\ \E h \in DOMAIN handles : handles[h].name \notin DOMAIN disk

(* C5: when a rotation has swept, the file it installed is still on disk.  *)
C5_SweepSparesActive ==
    \A t \in Threads :
        (pc[t] \in {"w_unlock2", "ro_unlock", "panic"} /\ L[t].newfile # Nil)
            => handles[L[t].newfile].name \in DOMAIN disk

\* a first create followed by five successful rotations, and nothing else
FiveRotations ==
    /\ Quiescent
    /\ Len(handles) = 6
    /\ handles[1].by = "create"
    /\ \A h \in 2..6 : handles[h].by = "rotate"

ThreeNewestRemain ==
    /\ Cardinality(DOMAIN disk) = 3
    /\ DOMAIN disk = {handles[h].name : h \in 4..6}

\* each of the six files was opened in a later second than the one before
DistinctSeconds == \A h \in 1..5 : StrLess(handles[h].name, handles[h + 1].name)

(* C6, as stated: MaxBackups = 2, a create and five rotations leave        *)
(* exactly the three newest backups.                                       *)
C6_ThreeRemain == (cfg.MaxBackups = 2 /\ FiveRotations) => ThreeNewestRemain

(* C6, amended: the same, when every one of the six opens happens in a     *)
(* later second than the one before.                                       *)
C6_ThreeRemainDistinctSeconds ==
    (cfg.MaxBackups = 2 /\ FiveRotations /\ DistinctSeconds) => ThreeNewestRemain

C6_Witness == cfg.MaxBackups = 2 /\ FiveRotations /\ DistinctSeconds

(* C7: whenever the mutex is free and a handle has been installed, the     *)
(* target path is a symlink to the name of the file behind the handle and  *)
(* that file is on disk.                                                   *)
C7_LinkResolves ==
    (mu = 0 /\ file # Nil)
        => (link = handles[file].name /\ link \in DOMAIN disk
            /\ disk[link] = handles[file].ino)

(* C8: a Close that starts when no file is open returns no error.          *)
C8_CloseIdempotent ==
    \A t \in Threads :
        (pc[t] = "returned" /\ L[t].op = "Close" /\ L[t].start \in {"nil", "closed"})
            => L[t].err = "nil"

(* C9: a call during which an open failed returns that error.              *)
C9_OpenErrorReturned ==
    \A t \in Threads : (pc[t] = "returned" /\ L[t].openFailed) => L[t].err = "EOPEN"

(* C10: when rotate has returned nil to Rotate, the handle cell holds the  *)
(* handle opened last, which is open and not the previous one, the         *)
(* previous handle is closed and w.size is 0.                              *)
C10_RotateInstalls ==
    \A t \in Threads :
        (pc[t] = "ro_unlock" /\ L[t].rerr = "nil")
            => /\ file = L[t].newfile
               /\ file = Len(handles)
               /\ handles[file].open
               /\ size = 0
               /\ L[t].oldfile # file
               /\ L[t].oldfile # Nil => ~handles[L[t].oldfile].open

\* Rotate has succeeded on a writer whose handle Close had closed before
C10_Witness ==
    \E t \in Threads :
        /\ pc[t] = "ro_unlock" /\ L[t].rerr = "nil"
        /\ L[t].start = "closed"
        /\ L[t].oldfile # Nil

\* the positions of a call between taking the mutex and releasing it
LockedSteps == {"c_open", "c_size", "w_unlock", "r_open", "r_size", "r_close",
                "w_unlock2", "ro_unlock", "cl_close", "cl_size", "cl_unlock"}

(* C11: no call is ever left where it cannot return: no thread has         *)
(* panicked, and the thread that holds the mutex is at a step of create,   *)
(* rotate or Close that goes on to release it.                             *)
C11_EveryCallCanReturn ==
    /\ ~Panicked
    /\ mu # 0 => pc[mu] \in LockedSteps

(* C12: a Write that found no handle and has released the mutex holds a    *)
(* handle to write to at line 52, whether it created the file itself or    *)
(* found it created in its re-check; it does not crash.                    *)
C12_LoserWritesToInstalled ==
    \A t \in Threads :
        /\ pc[t] = "w_write3" => L[t].file # Nil
        /\ (pc[t] = "panic" /\ L[t].op = "Write") => L[t].newfile # Nil

\* thread t is inside rotate and holds the mutex
Rotating(t) == mu = t /\ pc[t] \in {"r_open", "r_size", "r_close"}

(* C13: once a handle is installed the cell is never nil again, and in any *)
(* step in which a rotation closes a handle the cell already holds another *)
(* handle, which is open.                                                  *)
C13_PublishBeforeClose ==
    [][/\ file # Nil => file' # Nil
       /\ \A h \in DOMAIN handles :
             (handles[h].open /\ ~handles'[h].open /\ \E t \in Threads : Rotating(t))
                 => (file # Nil /\ file # h /\ handles[file].open)]_vars

\* a rotation has closed the handle that another thread had loaded and is
\* about to write through
C13_Witness ==
    \E t, u \in Threads :
        /\ pc[t] \in {"w_unlock2", "ro_unlock"}
        /\ L[t].oldfile # Nil /\ ~handles[L[t].oldfile].open
        /\ file = L[t].newfile
        /\ pc[u] = "w_write" /\ L[u].file = L[t].oldfile

(* C14: with MaxSize > 0, when no call is in progress the counter is at    *)
(* least the number of bytes written through the open handle in the cell   *)
(* since it was installed.                                                 *)
C14_NeverUnderCounts ==
    (cfg.MaxSize > 0 /\ Quiescent /\ file # Nil /\ handles[file].open)
        => size >= ViaBytes(file)

(* C15: a Write makes at most two write attempts, the second only after    *)
(* the first failed on a closed handle; a Write that returns success has   *)
(* appended its p bytes exactly once, and one that returns an error has    *)
(* appended nothing.                                                       *)
C15_RetryOnceAppendOnce ==
    \A t \in Threads :
        L[t].op = "Write" =>
            /\ L[t].tries <= 2
            /\ pc[t] \in {"w_reload", "w_retry"} => (L[t].tries = 1 /\ L[t].appended = 0)
            /\ pc[t] = "returned" =>
                  /\ L[t].err = "nil" => (L[t].appended = L[t].p /\ L[t].n = L[t].p)
                  /\ L[t].err # "nil" => (L[t].appended = 0 /\ L[t].n = 0)

\* a Write whose handle was closed by a rotation has returned success from
\* its second attempt
C15_Witness ==
    \E t \in Threads :
        /\ pc[t] = "returned" /\ L[t].op = "Write"
        /\ L[t].tries = 2 /\ L[t].err = "nil" /\ L[t].appended = L[t].p
        /\ g.sizeRotations > 0

\* thread t leaves rotate's open with an error in this step
RotateOpenFails(t) == pc[t] = "r_open" /\ pc'[t] # "r_open" /\ L'[t].rerr = "EOPEN"

(* C16: a rotation, forced or triggered by the size, that cannot open the  *)
(* new file changes nothing: the cell, the handles and their open status,  *)
(* the counter, the symlink and the files of the directory stay as they    *)
(* were; and a Write that then starts on the open handle returns success.  *)
C16_FailedRotateNoEffect ==
    [][/\ \A t \in Threads :
             RotateOpenFails(t) => UNCHANGED <<file, handles, size, link, disk, bytes>>
       /\ \A t \in Threads :
             (pc'[t] = "returned" /\ L'[t].op = "Write" /\ L'[t].start = "open"
                 /\ g'.openFailed)
                 => (L'[t].err = "nil" /\ L'[t].n = L'[t].p)]_vars

\* a rotation of a writer that has an open handle, a counter above zero and
\* a symlink has failed to open the new file
C16_Witness ==
    \E t \in Threads :
        /\ pc[t] \in {"ro_unlock", "w_unlock2"} /\ L[t].rerr = "EOPEN"
        /\ file # Nil /\ handles[file].open /\ Len(handles) = 1
        /\ size > 0 /\ link = handles[file].name

\* the positions at which a Write hands bytes to a file or counts them
TransferSteps == {"w_write", "w_reload", "w_retry", "w_write3", "w_size"}

(* C17: the thread that holds the mutex is at a step of create, rotate or  *)
(* Close, never at a write; and a Write holds the mutex only if it loaded  *)
(* no handle or its addition to the counter went beyond MaxSize.           *)
C17_NoWriteUnderLock ==
    /\ mu # 0 => pc[mu] \in LockedSteps
    /\ \A t \in Threads : pc[t] \in TransferSteps => mu # t
    /\ \A t \in Threads :
          (mu = t /\ L[t].op = "Write") =>
              \/ L[t].start = "nil"
              \/ cfg.MaxSize > 0 /\ pc[t] \in {"r_open", "r_size", "r_close", "w_unlock2"}

\* one thread is inside rotate with the mutex while another is writing
\* through a handle it loaded without the mutex
C17_Witness ==
    \E t, u \in Threads :
        /\ mu = t /\ pc[t] = "r_size"
        /\ pc[u] = "w_write" /\ L[u].file # Nil

(* C18: a first Write whose open fails returns that error with n = 0 and   *)
(* leaves the cell nil; a first Write whose open succeeds, after earlier   *)
(* failures or not, returns success with a handle installed.               *)
C18_FailedCreateRecovers ==
    \A t \in Threads :
        (pc[t] = "returned" /\ L[t].op = "Write" /\ L[t].start = "nil") =>
            IF L[t].err = "EOPEN"
            THEN L[t].n = 0 /\ file = Nil /\ handles = <<>>
            ELSE L[t].err = "nil" /\ L[t].n = L[t].p /\ file # Nil

\* two Writes were made: the first failed to create the file, the second
\* created it and returned success
C18_Witness ==
    \E t \in Threads :
        /\ pc[t] = "returned" /\ L[t].op = "Write" /\ L[t].start = "nil"
        /\ L[t].err = "nil" /\ ~L[t].openFailed
        /\ g.openFailed /\ g.calls = 2 /\ g.requested > MaxLen
        /\ Len(handles) = 1 /\ handles[file].open

(* C19: with MaxSize > 0 and no failed open, when no call is in progress   *)
(* the counter is at most MaxSize.                                         *)
C19_SizeWithinMax ==
    (cfg.MaxSize > 0 /\ ~g.openFailed /\ Quiescent) => size <= cfg.MaxSize

\* all calls have returned after a rotation triggered by the size, and
\* bytes were counted for the new handle
C19_Witness ==
    /\ cfg.MaxSize > 0 /\ ~g.openFailed /\ Quiescent
    /\ g.sizeRotations > 0 /\ size > 0

(* C20: the cell changes only in a step of the thread that holds the       *)
(* mutex, and whenever a step leaves the mutex free every handle still     *)
(* open is the one in the cell, so every replaced handle is closed.        *)
C20_NoHandleLeak ==
    [][/\ file' # file => (mu # 0 /\ mu' = mu /\ pc[mu] \in {"c_open", "r_open"})
       /\ mu' = 0 => \A h \in DOMAIN handles' : handles'[h].open => h = file']_vars

\* the mutex is free after a rotation that replaced an open handle
C20_Witness ==
    /\ mu = 0 /\ Len(handles) >= 2
    /\ handles[file].open
    /\ \E t \in Threads : pc[t] = "returned" /\ L[t].op = "Rotate"

====
